---- MODULE Spec2Model ----
(***************************************************************************)
(* Model of the meisengeige-bot subscription core:                         *)
(*   - SubscriberManager (src/src/subscribers.py and the copy inlined in   *)
(*     src/api/webhook.py): an in-memory set of chat ids backed by one     *)
(*     JSON file that is rewritten in place on every membership change;    *)
(*   - the command router: process_update of the webhook deployment and    *)
(*     the CommandHandler callbacks of the polling deployment.             *)
(* One process is modelled.  A store call is followed step by step through *)
(* _save_subscribers (open for writing, chunked write, close) so that I/O  *)
(* errors and process crashes can strike between the steps.                *)
(***************************************************************************)
EXTENDS Integers, Sequences, FiniteSets, TLC

(* ---------------------------------------------------------------- bounds *)
\* chat ids are 1..MaxId
MaxId == 2

Ids == 1..MaxId

\* the two deployment variants of the repository
Variants == {"webhook", "polling"}

(* ------------------------------------------------------- helper operators *)
Range(s) == {s[i] : i \in 1..Len(s)}

\* every listing of the set S without repetition: the orders list(set) can give
Orders(S) == {s \in [1..Cardinality(S) -> S] : \A i, j \in 1..Cardinality(S) : s[i] = s[j] => i = j}

Prefix(s, k) == [i \in 1..k |-> s[i]]

(* ---------------------------------------------------- the durable resource *)
(* The file is modelled by the shape of its content:                       *)
(*   absent          no file                                               *)
(*   object          {"subscribers": [ids...]} completely written          *)
(*   partial         a file opened with 'w' of which only a prefix (the    *)
(*                   ids listed so far, possibly none) has been written    *)
(*   no_key          a JSON object without a "subscribers" key             *)
(*   invalid_json    text that is not JSON                                 *)
(*   undecodable     bytes that are not UTF-8                              *)
(*   non_object      valid JSON that is not an object, e.g. [1, 2]         *)
(*   bad_subscribers {"subscribers": 5}: the value is not a list           *)
Absent == [kind |-> "absent", ids |-> <<>>]

ObjectFile(s) == [kind |-> "object", ids |-> s]

PartialFile(s) == [kind |-> "partial", ids |-> s]

CorruptKinds == {"no_key", "invalid_json", "undecodable", "non_object", "bad_subscribers"}

CorruptFiles == {[kind |-> k, ids |-> <<>>] : k \in CorruptKinds}

GoodFiles == {ObjectFile(s) : s \in UNION {Orders(S) : S \in SUBSET Ids}}

\* the contents the resource can have when the process first starts
InitFiles == {Absent} \cup GoodFiles \cup CorruptFiles \cup {PartialFile(<<>>)}

(* _load_subscribers: the exception it lets escape ("none" if it returns)  *)
load_raises(f) ==
  CASE f.kind = "absent" -> "none"
    [] f.kind = "object" -> "none"
    [] f.kind = "no_key" -> "none"
    [] f.kind = "partial" -> "none"
    [] f.kind = "invalid_json" -> "none"
    [] f.kind = "undecodable" -> "UnicodeDecodeError"
    [] f.kind = "non_object" -> "AttributeError"
    [] f.kind = "bad_subscribers" -> "TypeError"

\* faulty variant: the first id of the list is skipped
load_subscribers_skip_first(f) ==
  IF f.kind = "object" /\ f.ids # <<>> THEN Range(Tail(f.ids)) ELSE {}

(* _load_subscribers: the set it returns when it returns                   *)
load_subscribers(f) ==
  IF f.kind = "object" THEN Range(f.ids) ELSE {}

(* is_subscribed and get_subscriber_count on a set s *)
is_subscribed(s, id) == id \in s

get_subscriber_count(s) == Cardinality(s)

(* ------------------------------------------------------------ inbound events *)
(* A message text is a sequence of symbols: " " is whitespace, every other  *)
(* symbol stands for a run of non-blank characters.                         *)
IsSpace(c) == c = " "

RECURSIVE lstrip(_)
lstrip(t) == IF t # <<>> /\ IsSpace(Head(t)) THEN lstrip(Tail(t)) ELSE t

RECURSIVE rstrip(_)
rstrip(t) == IF t # <<>> /\ IsSpace(t[Len(t)]) THEN rstrip(SubSeq(t, 1, Len(t) - 1)) ELSE t

\* str.strip()
strip(t) == rstrip(lstrip(t))

\* the texts events carry
Texts == {
  <<"/start">>, <<" ", "/start", " ">>, <<"BTN_SUBSCRIBE">>,
  <<"/stop">>, <<"BTN_UNSUBSCRIBE">>, <<"/stop", " ">>,
  <<"/status">>, <<"BTN_STATUS">>,
  <<"banana">>, <<"/START">>, <<"/start", "!">>, <<>>, <<" ">> }

\* first names; "" stands for an empty or missing name
Names == {"Ana", ""}

NoEvent == [has_text |-> FALSE, chat_id |-> 0, text |-> <<>>, first_name |-> ""]

Events ==
  {[has_text |-> TRUE, chat_id |-> i, text |-> t, first_name |-> n] : i \in Ids, t \in Texts, n \in Names}
  \cup {[has_text |-> FALSE, chat_id |-> i, text |-> <<>>, first_name |-> "Ana"] : i \in Ids}

\* the Bot API delivers message text already trimmed; the polling variant
\* relies on the bot_command entity the API computes on that text
Delivered(e) == strip(e.text) = e.text

\* the literals process_update compares the trimmed text with
WebhookAliases(intent) ==
  CASE intent = "start" -> {<<"/start">>, <<"BTN_SUBSCRIBE">>}
    [] intent = "stop" -> {<<"/stop">>, <<"BTN_UNSUBSCRIBE">>}
    [] intent = "status" -> {<<"/status">>, <<"BTN_STATUS">>}

\* str.lower() on the command symbol
Lower(c) == IF c = "/START" THEN "/start" ELSE c

\* CommandHandler(cmd, ...): the message starts with the command, compared
\* case-insensitively; what follows the command entity is not looked at
CommandMatches(t, cmd) == t # <<>> /\ Lower(t[1]) = cmd

\* the intent an event is routed to
Intent(v, e) ==
  IF v = "webhook"
    THEN IF ~e.has_text \/ e.text = <<>> THEN "ignored"
         ELSE IF strip(e.text) \in WebhookAliases("start") THEN "start"
         ELSE IF strip(e.text) \in WebhookAliases("stop") THEN "stop"
         ELSE IF strip(e.text) \in WebhookAliases("status") THEN "status"
         ELSE "unknown"
    ELSE IF ~e.has_text THEN "ignored"
         ELSE IF CommandMatches(e.text, "/start") THEN "start"
         ELSE IF CommandMatches(e.text, "/stop") THEN "stop"
         ELSE IF CommandMatches(e.text, "/status") THEN "status"
         ELSE "unhandled"

(* ------------------------------------------------------------------ replies *)
NoReply == [kind |-> "none", name |-> "", count |-> -1, parse_mode |-> "None"]

Plain(k, n) == [kind |-> k, name |-> n, count |-> -1, parse_mode |-> "None"]

\* user_first_name = update.message.from_user.first_name or "there" (webhook);
\* the polling handlers format user.first_name as it is
DisplayName(v, e) == IF v = "webhook" /\ e.first_name = "" THEN "there" ELSE e.first_name

\* faulty variant: the two replies are swapped
handle_start_command_swapped(r, name) ==
  IF r = "True" THEN Plain("already", name) ELSE Plain("welcome", name)

handle_start_command(r, name) ==
  IF r = "True" THEN Plain("welcome", name) ELSE Plain("already", name)

\* faulty variant: the two replies are swapped
handle_stop_command_swapped(r) ==
  IF r = "True" THEN Plain("not_subscribed", "") ELSE Plain("unsubscribed", "")

handle_stop_command(r) ==
  IF r = "True" THEN Plain("unsubscribed", "") ELSE Plain("not_subscribed", "")

\* faulty variant: the count is shown in the inactive reply as well
handle_status_command_always_count(s, id) ==
  [kind |-> IF is_subscribed(s, id) THEN "status_active" ELSE "status_inactive",
   name |-> "", count |-> get_subscriber_count(s), parse_mode |-> "HTML"]

handle_status_command(s, id) ==
  IF is_subscribed(s, id)
    THEN [kind |-> "status_active", name |-> "", count |-> get_subscriber_count(s), parse_mode |-> "HTML"]
    ELSE [kind |-> "status_inactive", name |-> "", count |-> -1, parse_mode |-> "HTML"]

UnknownReply == Plain("unknown", "")

VARIABLES
  variant,      \* which deployment runs
  store,        \* "new" (never started), "up" (store constructed), "raised" (constructor
                \* raised), "down" (the process died; subscribers is its last memory)
  file,         \* the durable resource
  subscribers,  \* SubscriberManager._subscribers
  pc,           \* position of the process: "idle", "save_open", "save_write", "send", "done"
  caller,       \* who made the store call in progress: "api" or "router"
  call,         \* the last add_subscriber / remove_subscriber call: [op, id]; after a
                \* construction, how the process came up: "start", "restart_clean"
                \* (no call was in progress and no write had failed), "restart_dirty"
  repeat,       \* the call repeats the previous call of this process, which returned True
  writeFailed,  \* some _save_subscribers of this process ended in OSError
  pre,          \* _subscribers when that call (or the event) started
  fileBefore,   \* the durable resource when that call (or the event) started
  ret,          \* its return value: "True", "False", or "none" while it has not returned
  saved,        \* outcome of its _save_subscribers: "none", "ok", "OSError"
  pending,      \* list(self._subscribers) being serialized by json.dump
  event,        \* the event being handled, or handled last
  calls,        \* the store methods the router called for that event
  reply,        \* the reply computed for that event
  outcome,      \* "none", "ignored", "unhandled", "success", "error" (the send failed and
                \* process_update returned an error status), "raised" (the send failed
                \* and the exception left the polling handler)
  sent,         \* number of replies the router has tried to send for that event
  other,        \* _subscribers of a second store instance over the same file
  otherWrote,   \* what the second instance did to the file since this instance last
                \* opened it for writing: "no" (nothing), "ok" (rewrote it), "failed"
                \* (its last write ended in OSError), "overlap" (rewrote it while
                \* this instance had it open for writing)
  whStore,      \* the SubscriberManager copy of api/webhook.py run side by side with the
                \* one of src/subscribers.py: "new", "up", or "raised"
  whFile,       \* the durable resource of the copy
  whSubscribers,\* _subscribers of the copy
  whPc,         \* "idle", or "done" when the copy has made the call this store made last
  whRet         \* what that call of the copy returned: [b, n]

vars == <<variant, store, file, subscribers, pc, caller, call, repeat, writeFailed, pre, fileBefore, ret, saved, pending, event, calls, reply, outcome, sent, other, otherWrote, whStore, whFile, whSubscribers, whPc, whRet>>

webhookVars == <<whStore, whFile, whSubscribers, whPc, whRet>>

otherVars == <<other, otherWrote>>

storeVars == <<variant, store, file>>

callVars == <<caller, call, repeat, writeFailed, pre, fileBefore, ret, saved, pending>>

eventVars == <<event, calls, reply, outcome, sent>>

NoCall == [op |-> "none", id |-> 0]

\* the copy has returned nothing
NoReturn == [b |-> "none", n |-> 0]

\* the copy is not run
NoCopy ==
  /\ whStore = "new"
  /\ whFile = Absent
  /\ whSubscribers = {}
  /\ whPc = "idle"
  /\ whRet = NoReturn

Init ==
  /\ variant \in Variants
  /\ store = "new"
  /\ file \in InitFiles
  /\ subscribers = {}
  /\ pc = "idle"
  /\ caller = "api"
  /\ call = NoCall
  /\ repeat = FALSE
  /\ writeFailed = FALSE
  /\ pre = {}
  /\ fileBefore = Absent
  /\ ret = "none"
  /\ saved = "none"
  /\ pending = <<>>
  /\ event = NoEvent
  /\ calls = <<>>
  /\ reply = NoReply
  /\ outcome = "none"
  /\ sent = 0
  /\ other = {}
  /\ otherWrote = "no"
  /\ NoCopy

(* the process died with no store call in progress and no failed write *)
Clean == pc \in {"idle", "send", "done"} /\ ~writeFailed

(* SubscriberManager.__init__, at the start of a process; pre keeps the    *)
(* memory of the process it replaces                                       *)
Construct ==
  /\ store \in {"new", "down"}
  /\ IF load_raises(file) = "none"
       THEN store' = "up" /\ subscribers' = load_subscribers(file)
       ELSE store' = "raised" /\ subscribers' = {}
  /\ pc' = "done"
  /\ caller' = "api"
  /\ call' = [op |-> IF store = "new" THEN "start" ELSE IF Clean THEN "restart_clean" ELSE "restart_dirty", id |-> 0]
  /\ repeat' = FALSE
  /\ writeFailed' = FALSE
  /\ pre' = subscribers
  /\ fileBefore' = Absent
  /\ ret' = "none"
  /\ saved' = "none"
  /\ pending' = <<>>
  /\ event' = NoEvent
  /\ calls' = <<>>
  /\ reply' = NoReply
  /\ outcome' = "none"
  /\ sent' = 0
  /\ UNCHANGED <<variant, file, otherVars>>
  /\ UNCHANGED webhookVars

(* the reply the router builds from the return value r of the store call *)
Respond(e, op, r) ==
  IF op = "add" THEN handle_start_command(r, DisplayName(variant, e))
  ELSE handle_stop_command(r)

(* control leaves the store call with return value r *)
Return(who, e, op, r) ==
  /\ ret' = r
  /\ IF who = "api"
       THEN pc' = "done" /\ reply' = NoReply
       ELSE pc' = "send" /\ reply' = Respond(e, op, r)

\* faulty variant: a call that changes nothing rewrites the file all the same
StartCall_always_saves(who, e, op, id, noop) ==
  /\ caller' = who
  /\ call' = [op |-> op, id |-> id]
  /\ repeat' = (call = [op |-> op, id |-> id] /\ ret = "True")
  /\ pre' = subscribers
  /\ fileBefore' = file
  /\ saved' = "none"
  /\ pending' = <<>>
  /\ subscribers' = IF op = "add" THEN subscribers \cup {id} ELSE subscribers \ {id}
  /\ pc' = "save_open"
  /\ ret' = "none"
  /\ reply' = NoReply

\* faulty variant: remove empties the whole set
StartCall_clear(who, e, op, id, noop) ==
  /\ caller' = who
  /\ call' = [op |-> op, id |-> id]
  /\ repeat' = (call = [op |-> op, id |-> id] /\ ret = "True")
  /\ pre' = subscribers
  /\ fileBefore' = file
  /\ saved' = "none"
  /\ pending' = <<>>
  /\ IF noop
       THEN /\ Return(who, e, op, "False")
            /\ UNCHANGED subscribers
       ELSE /\ subscribers' = IF op = "add" THEN subscribers \cup {id} ELSE {}
            /\ pc' = "save_open"
            /\ ret' = "none"
            /\ reply' = NoReply

(* add_subscriber / remove_subscriber up to the call of _save_subscribers *)
StartCall(who, e, op, id, noop) ==
  /\ caller' = who
  /\ call' = [op |-> op, id |-> id]
  /\ repeat' = (call = [op |-> op, id |-> id] /\ ret = "True")
  /\ pre' = subscribers
  /\ fileBefore' = file
  /\ saved' = "none"
  /\ pending' = <<>>
  /\ IF noop
       THEN /\ Return(who, e, op, "False")
            /\ UNCHANGED subscribers
       ELSE /\ subscribers' = IF op = "add" THEN subscribers \cup {id} ELSE subscribers \ {id}
            /\ pc' = "save_open"
            /\ ret' = "none"
            /\ reply' = NoReply

\* faulty variant: the membership test is missing
add_subscriber_unchecked(who, e, id) == StartCall(who, e, "add", id, FALSE)

add_subscriber(who, e, id) == StartCall(who, e, "add", id, id \in subscribers)

\* faulty variant: the membership test is missing
remove_subscriber_unchecked(who, e, id) == StartCall(who, e, "remove", id, FALSE)

remove_subscriber(who, e, id) == StartCall(who, e, "remove", id, id \notin subscribers)

(* a direct call of the store by a caller other than the router *)
ApiAdd ==
  /\ store = "up" /\ pc = "idle"
  /\ event' = NoEvent /\ calls' = <<>> /\ outcome' = "none" /\ sent' = 0
  /\ \E id \in Ids : add_subscriber("api", NoEvent, id)
  /\ UNCHANGED <<storeVars, writeFailed, otherVars>>
  /\ UNCHANGED webhookVars

ApiRemove ==
  /\ store = "up" /\ pc = "idle"
  /\ event' = NoEvent /\ calls' = <<>> /\ outcome' = "none" /\ sent' = 0
  /\ \E id \in Ids : remove_subscriber("api", NoEvent, id)
  /\ UNCHANGED <<storeVars, writeFailed, otherVars>>
  /\ UNCHANGED webhookVars

(* is_subscribed, get_subscriber_count and get_all_subscribers called by   *)
(* a caller other than the router: they return chat_id in _subscribers,    *)
(* len(_subscribers) and a copy of _subscribers, and assign nothing         *)
ApiRead ==
  /\ store = "up" /\ pc = "idle"
  /\ \E id \in Ids, op \in {"is_subscribed", "get_subscriber_count", "get_all_subscribers"} :
       /\ call' = [op |-> op, id |-> IF op = "is_subscribed" THEN id ELSE 0]
       /\ ret' = IF op # "is_subscribed" THEN "none"
                 ELSE IF is_subscribed(subscribers, id) THEN "True" ELSE "False"
  /\ pc' = "done"
  /\ caller' = "api"
  /\ repeat' = FALSE
  /\ pre' = subscribers
  /\ fileBefore' = file
  /\ saved' = "none"
  /\ pending' = <<>>
  /\ event' = NoEvent /\ calls' = <<>> /\ reply' = NoReply /\ outcome' = "none" /\ sent' = 0
  /\ UNCHANGED <<storeVars, subscribers, writeFailed, otherVars>>
  /\ UNCHANGED webhookVars

\* faulty variant: the set is serialized as it was before the mutation
SaveOpen_stale ==
  /\ store = "up" /\ pc = "save_open"
  /\ \/ /\ file' = PartialFile(<<>>)
        /\ \E s \in Orders(pre) : pending' = s
        /\ pc' = "save_write"
        /\ otherWrote' = "no"
        /\ UNCHANGED <<ret, saved, reply, writeFailed>>
     \/ /\ saved' = "OSError"
        /\ writeFailed' = TRUE
        /\ Return(caller, event, call.op, "True")
        /\ UNCHANGED <<file, pending, otherWrote>>
  /\ UNCHANGED <<variant, store, subscribers, caller, call, repeat, pre, fileBefore, event, calls, outcome, sent, other>>
  /\ UNCHANGED webhookVars

\* faulty variant: the call returns before the write is attempted
SaveOpen_deferred ==
  /\ store = "up" /\ pc = "save_open"
  /\ Return(caller, event, call.op, "True")
  /\ UNCHANGED <<variant, store, file, subscribers, caller, call, repeat, writeFailed, pre, fileBefore, saved, pending, event, calls, outcome, sent, otherVars>>
  /\ UNCHANGED webhookVars

(* _save_subscribers: open(self.storage_file, 'w') truncates the file in   *)
(* place, or raises OSError and leaves it alone                            *)
SaveOpen ==
  /\ store = "up" /\ pc = "save_open"
  /\ \/ /\ file' = PartialFile(<<>>)
        /\ \E s \in Orders(subscribers) : pending' = s
        /\ pc' = "save_write"
        /\ otherWrote' = "no"
        /\ UNCHANGED <<ret, saved, reply, writeFailed>>
     \/ /\ saved' = "OSError"
        /\ writeFailed' = TRUE
        /\ Return(caller, event, call.op, "True")
        /\ UNCHANGED <<file, pending, otherWrote>>
  /\ UNCHANGED <<variant, store, subscribers, caller, call, repeat, pre, fileBefore, event, calls, outcome, sent, other>>
  /\ UNCHANGED webhookVars

\* faulty variant: a failed write makes the call return False
SaveWrite_reports_failure ==
  /\ store = "up" /\ pc = "save_write" /\ otherWrote # "overlap"
  /\ Len(file.ids) < Len(pending)
  /\ \/ /\ file' = PartialFile(Prefix(pending, Len(file.ids) + 1))
        /\ UNCHANGED <<pc, ret, saved, reply, writeFailed>>
     \/ /\ saved' = "OSError"
        /\ writeFailed' = TRUE
        /\ Return(caller, event, call.op, "False")
        /\ UNCHANGED file
  /\ UNCHANGED <<variant, store, subscribers, caller, call, repeat, pre, fileBefore, pending, event, calls, outcome, sent, otherVars>>
  /\ UNCHANGED webhookVars

(* json.dump: the serialization reaches the file chunk by chunk; a write   *)
(* can raise OSError, which _save_subscribers swallows                     *)
SaveWrite ==
  /\ store = "up" /\ pc = "save_write" /\ otherWrote # "overlap"
  /\ Len(file.ids) < Len(pending)
  /\ \/ /\ file' = PartialFile(Prefix(pending, Len(file.ids) + 1))
        /\ UNCHANGED <<pc, ret, saved, reply, writeFailed>>
     \/ /\ saved' = "OSError"
        /\ writeFailed' = TRUE
        /\ Return(caller, event, call.op, "True")
        /\ UNCHANGED file
  /\ UNCHANGED <<variant, store, subscribers, caller, call, repeat, pre, fileBefore, pending, event, calls, outcome, sent, otherVars>>
  /\ UNCHANGED webhookVars

(* the last chunk and the close of the with-block *)
SaveClose ==
  /\ store = "up" /\ pc = "save_write" /\ otherWrote # "overlap"
  /\ Len(file.ids) = Len(pending)
  /\ \/ /\ file' = ObjectFile(pending)
        /\ saved' = "ok"
        /\ UNCHANGED writeFailed
     \/ /\ saved' = "OSError"
        /\ writeFailed' = TRUE
        /\ UNCHANGED file
  /\ Return(caller, event, call.op, "True")
  /\ UNCHANGED <<variant, store, subscribers, caller, call, repeat, pre, fileBefore, pending, event, calls, outcome, sent, otherVars>>
  /\ UNCHANGED webhookVars

(* the router takes one event: process_update of the webhook variant, or   *)
(* the dispatch to start_command / stop_command / status_command           *)
HandleEvent(e) ==
  /\ event' = e
  /\ sent' = 0
  /\ LET intent == Intent(variant, e) IN
     CASE intent = "start" ->
            /\ calls' = <<[op |-> "add_subscriber", id |-> e.chat_id]>>
            /\ add_subscriber("router", e, e.chat_id)
            /\ outcome' = "none"
       [] intent = "stop" ->
            /\ calls' = <<[op |-> "remove_subscriber", id |-> e.chat_id]>>
            /\ remove_subscriber("router", e, e.chat_id)
            /\ outcome' = "none"
       [] intent = "status" ->
            /\ calls' = <<[op |-> "is_subscribed", id |-> e.chat_id], [op |-> "get_subscriber_count", id |-> 0]>>
            /\ reply' = handle_status_command(subscribers, e.chat_id)
            /\ pc' = "send"
            /\ outcome' = "none"
            /\ pre' = subscribers /\ fileBefore' = file
            /\ caller' = "router" /\ call' = NoCall /\ repeat' = FALSE /\ ret' = "none" /\ saved' = "none" /\ pending' = <<>>
            /\ UNCHANGED subscribers
       [] intent = "unknown" ->
            /\ calls' = <<>>
            /\ reply' = UnknownReply
            /\ pc' = "send"
            /\ outcome' = "none"
            /\ pre' = subscribers /\ fileBefore' = file
            /\ caller' = "router" /\ call' = NoCall /\ repeat' = FALSE /\ ret' = "none" /\ saved' = "none" /\ pending' = <<>>
            /\ UNCHANGED subscribers
       [] OTHER ->
            /\ calls' = <<>>
            /\ reply' = NoReply
            /\ pc' = "done"
            /\ outcome' = intent
            /\ pre' = subscribers /\ fileBefore' = file
            /\ caller' = "router" /\ call' = NoCall /\ repeat' = FALSE /\ ret' = "none" /\ saved' = "none" /\ pending' = <<>>
            /\ UNCHANGED subscribers

ProcessUpdate ==
  /\ variant = "webhook" /\ store = "up" /\ pc = "idle"
  /\ \E e \in Events : HandleEvent(e)
  /\ UNCHANGED <<storeVars, writeFailed, otherVars>>
  /\ UNCHANGED webhookVars

PollingUpdate ==
  /\ variant = "polling" /\ store = "up" /\ pc = "idle"
  /\ \E e \in {x \in Events : Delivered(x)} : HandleEvent(e)
  /\ UNCHANGED <<storeVars, writeFailed, otherVars>>
  /\ UNCHANGED webhookVars

\* faulty variant: a failed send undoes the mutation in memory
Send_rollback ==
  /\ store = "up" /\ pc = "send"
  /\ pc' = "done"
  /\ sent' = sent + 1
  /\ \/ outcome' = "success" /\ UNCHANGED subscribers
     \/ outcome' = (IF variant = "webhook" THEN "error" ELSE "raised") /\ subscribers' = pre
  /\ UNCHANGED <<storeVars, callVars, event, calls, reply, otherVars>>
  /\ UNCHANGED webhookVars

(* bot.send_message / update.message.reply_text: delivered, or it raises.  *)
(* process_update catches the exception and returns an error status; the   *)
(* polling handlers have no try block, the exception leaves them            *)
Send ==
  /\ store = "up" /\ pc = "send"
  /\ pc' = "done"
  /\ sent' = sent + 1
  /\ outcome' \in {"success", IF variant = "webhook" THEN "error" ELSE "raised"}
  /\ UNCHANGED <<storeVars, subscribers, callVars, event, calls, reply, otherVars>>
  /\ UNCHANGED webhookVars

(* the call or the handler has returned and the process waits for the next *)
(* one; only the last store call and its result are remembered             *)
Finish ==
  /\ store = "up" /\ pc = "done"
  /\ pc' = "idle"
  /\ caller' = "api"
  /\ pre' = {}
  /\ fileBefore' = Absent
  /\ saved' = "none"
  /\ pending' = <<>>
  /\ event' = NoEvent
  /\ calls' = <<>>
  /\ reply' = NoReply
  /\ outcome' = "none"
  /\ sent' = 0
  /\ repeat' = FALSE
  /\ IF call.op \in {"add", "remove"}
       THEN UNCHANGED <<call, ret>>
       ELSE call' = NoCall /\ ret' = "none"
  /\ UNCHANGED <<storeVars, subscribers, writeFailed, otherVars>>
  /\ UNCHANGED webhookVars

(* the process dies where it stands: the file stays as it is; subscribers  *)
(* keeps the memory the dead process had, which no later code can read     *)
Crash ==
  /\ store = "up"
  /\ store' = "down"
  /\ UNCHANGED <<variant, file, subscribers, pc, callVars, eventVars, otherVars>>
  /\ UNCHANGED webhookVars

Next ==
  \/ Construct
  \/ ApiAdd
  \/ ApiRemove
  \/ ApiRead
  \/ SaveOpen
  \/ SaveWrite
  \/ SaveClose
  \/ ProcessUpdate
  \/ PollingUpdate
  \/ Send
  \/ Finish
  \/ Crash

Spec == Init /\ [][Next]_vars

(* ------------------------------------------- two instances over one file *)
(* A second SubscriberManager, in another process or invocation, loaded    *)
(* from the same file.  Nothing locks the file.  Its calls are taken       *)
(* whole, between two calls of this instance or while this instance has    *)
(* the file open for writing (the two writes overlap).                     *)

\* the file after two overlapping writes: bytes of one followed by the rest of the other
Mixed == [kind |-> "invalid_json", ids |-> <<>>]

\* faulty variant: the second instance merges its set with the ids in the file
OtherCall_merge(op, id) ==
  /\ store = "up" /\ pc \in {"idle", "save_write"}
  /\ other' = (IF op = "add" THEN other \cup {id} ELSE other \ {id})
  /\ other' # other
  /\ \/ /\ \E s \in Orders(other' \cup load_subscribers(file)) : file' = ObjectFile(s)
        /\ otherWrote' = IF pc = "save_write" THEN "overlap" ELSE "ok"
     \/ /\ file' = PartialFile(<<>>)
        /\ otherWrote' = IF pc = "save_write" THEN "overlap" ELSE "failed"
     \/ /\ UNCHANGED file
        /\ otherWrote' = IF otherWrote = "ok" THEN "failed" ELSE otherWrote
  /\ UNCHANGED <<variant, store, subscribers, pc, callVars, eventVars>>
  /\ UNCHANGED webhookVars

(* add_subscriber / remove_subscriber of the second instance, when it      *)
(* changes membership: _save_subscribers rewrites the file with its whole  *)
(* set; or the write raises after open has truncated the file; or open     *)
(* raises and the file stays as it is                                      *)
OtherCall(op, id) ==
  /\ store = "up" /\ pc \in {"idle", "save_write"}
  /\ other' = (IF op = "add" THEN other \cup {id} ELSE other \ {id})
  /\ other' # other
  /\ \/ /\ \E s \in Orders(other') : file' = ObjectFile(s)
        /\ otherWrote' = IF pc = "save_write" THEN "overlap" ELSE "ok"
     \/ /\ file' = PartialFile(<<>>)
        /\ otherWrote' = IF pc = "save_write" THEN "overlap" ELSE "failed"
     \/ /\ UNCHANGED file
        /\ otherWrote' = IF otherWrote = "ok" THEN "failed" ELSE otherWrote
  /\ UNCHANGED <<variant, store, subscribers, pc, callVars, eventVars>>
  /\ UNCHANGED webhookVars

OtherAdd == \E id \in Ids : id \notin other /\ OtherCall("add", id)

OtherRemove == \E id \in Ids : id \in other /\ OtherCall("remove", id)

(* the rest of this instance's write after the other instance rewrote the  *)
(* file under it: its bytes go to the start of the file the other instance *)
(* left, and cover it when they are at least as many                       *)
SaveOverwritten ==
  /\ store = "up" /\ pc = "save_write" /\ otherWrote = "overlap"
  /\ \/ /\ LET theirs == IF file.kind = "object" THEN Len(file.ids) ELSE -1 IN
             file' \in (IF Len(pending) >= theirs THEN {ObjectFile(pending)} ELSE {})
                       \cup (IF Len(pending) <= theirs /\ theirs > 0 THEN {Mixed} ELSE {})
        /\ saved' = "ok"
        /\ UNCHANGED writeFailed
     \/ /\ saved' = "OSError"
        /\ writeFailed' = TRUE
        /\ UNCHANGED file
  /\ Return(caller, event, call.op, "True")
  /\ UNCHANGED <<variant, store, subscribers, caller, call, repeat, pre, fileBefore, pending, event, calls, outcome, sent, otherVars>>
  /\ UNCHANGED webhookVars

\* the commands the invocations of the two-instance runs carry
CommandEvents ==
  {e \in Events : e.has_text /\ e.first_name = "Ana" /\ e.text \in {<<"/start">>, <<"/stop">>, <<"/status">>}}

(* one invocation of the webhook: do_POST hands the update to              *)
(* process_update, which uses the module-level subscriber_manager          *)
Invocation ==
  /\ variant = "webhook" /\ store = "up" /\ pc = "idle"
  /\ \E e \in CommandEvents : HandleEvent(e)
  /\ UNCHANGED <<storeVars, writeFailed, otherVars>>
  /\ UNCHANGED webhookVars

\* both instances are loaded from the same file
Init2 ==
  /\ variant = "webhook"
  /\ store = "new"
  /\ file \in {Absent} \cup GoodFiles
  /\ subscribers = {}
  /\ pc = "idle"
  /\ caller = "api"
  /\ call = NoCall
  /\ repeat = FALSE
  /\ writeFailed = FALSE
  /\ pre = {}
  /\ fileBefore = Absent
  /\ ret = "none"
  /\ saved = "none"
  /\ pending = <<>>
  /\ event = NoEvent
  /\ calls = <<>>
  /\ reply = NoReply
  /\ outcome = "none"
  /\ sent = 0
  /\ other = load_subscribers(file)
  /\ otherWrote = "no"
  /\ NoCopy

Next2 ==
  \/ Construct
  \/ Invocation
  \/ SaveOpen
  \/ SaveWrite
  \/ SaveClose
  \/ SaveOverwritten
  \/ Send
  \/ Finish
  \/ OtherAdd
  \/ OtherRemove

Spec2 == Init2 /\ [][Next2]_vars

(* ------------------------------- the SubscriberManager of api/webhook.py *)
(* The class inlined in api/webhook.py, run side by side with the one of   *)
(* src/subscribers.py: both start on files of equal content, the copy      *)
(* makes each call after this store has made it, and its write fails where *)
(* the write of this store failed.                                         *)

(* webhook.py _load_subscribers: the exception it lets escape *)
webhook_load_raises(f) ==
  IF f.kind = "absent" THEN "none"
  ELSE IF f.kind = "undecodable" THEN "UnicodeDecodeError"
  ELSE IF f.kind \in {"partial", "invalid_json"} THEN "none"
  ELSE IF f.kind = "non_object" THEN "AttributeError"
  ELSE IF f.kind = "bad_subscribers" THEN "TypeError"
  ELSE "none"

(* webhook.py _load_subscribers: the set it returns when it returns *)
webhook_load_subscribers(f) ==
  IF f.kind = "absent" THEN {}
  ELSE IF f.kind \in {"partial", "invalid_json"} THEN {}
  ELSE IF f.kind = "no_key" THEN {}
  ELSE Range(f.ids)

(* how the _save_subscribers of the call this store made last ended: no    *)
(* failure, OSError at open, or OSError after k ids had been written       *)
WriteOutcome ==
  IF saved # "OSError" THEN [at |-> "none", k |-> 0]
  ELSE IF file = fileBefore THEN [at |-> "open", k |-> 0]
  ELSE [at |-> "write", k |-> Len(file.ids)]

(* webhook.py _save_subscribers of the set s, failing as w says *)
webhook_save_subscribers(s, w) ==
  \E l \in Orders(s) :
    whFile' = CASE w.at = "open" -> whFile
                [] w.at = "write" -> PartialFile(Prefix(l, IF w.k < Len(l) THEN w.k ELSE Len(l)))
                [] OTHER -> ObjectFile(l)

(* webhook.py __init__ *)
webhook_init ==
  /\ whRet' = [b |-> webhook_load_raises(whFile), n |-> 0]
  /\ IF webhook_load_raises(whFile) = "none"
       THEN whStore' = "up" /\ whSubscribers' = webhook_load_subscribers(whFile)
       ELSE whStore' = "raised" /\ whSubscribers' = {}
  /\ UNCHANGED whFile

\* faulty variant: the copy adds the id in memory and does not save
webhook_add_subscriber_no_save(id, w) ==
  /\ IF id \in whSubscribers
       THEN whRet' = [b |-> "False", n |-> 0] /\ UNCHANGED whSubscribers
       ELSE whSubscribers' = whSubscribers \cup {id} /\ whRet' = [b |-> "True", n |-> 0]
  /\ UNCHANGED <<whStore, whFile>>

(* webhook.py add_subscriber *)
webhook_add_subscriber(id, w) ==
  /\ IF id \in whSubscribers
       THEN /\ whRet' = [b |-> "False", n |-> 0]
            /\ UNCHANGED <<whSubscribers, whFile>>
       ELSE /\ whSubscribers' = whSubscribers \cup {id}
            /\ webhook_save_subscribers(whSubscribers \cup {id}, w)
            /\ whRet' = [b |-> "True", n |-> 0]
  /\ UNCHANGED whStore

(* webhook.py remove_subscriber *)
webhook_remove_subscriber(id, w) ==
  /\ IF id \notin whSubscribers
       THEN /\ whRet' = [b |-> "False", n |-> 0]
            /\ UNCHANGED <<whSubscribers, whFile>>
       ELSE /\ whSubscribers' = whSubscribers \ {id}
            /\ webhook_save_subscribers(whSubscribers \ {id}, w)
            /\ whRet' = [b |-> "True", n |-> 0]
  /\ UNCHANGED whStore

(* webhook.py is_subscribed *)
webhook_is_subscribed(id) ==
  /\ whRet' = [b |-> IF id \in whSubscribers THEN "True" ELSE "False", n |-> 0]
  /\ UNCHANGED <<whStore, whSubscribers, whFile>>

(* webhook.py get_subscriber_count *)
webhook_get_subscriber_count ==
  /\ whRet' = [b |-> "none", n |-> Cardinality(whSubscribers)]
  /\ UNCHANGED <<whStore, whSubscribers, whFile>>

(* the copy makes the call this store has just returned from *)
WebhookCall ==
  /\ store \in {"up", "raised"} /\ pc = "done" /\ whPc = "idle"
  /\ whPc' = "done"
  /\ CASE call.op = "start" -> whStore = "new" /\ webhook_init
       [] call.op = "add" -> whStore = "up" /\ webhook_add_subscriber(call.id, WriteOutcome)
       [] call.op = "remove" -> whStore = "up" /\ webhook_remove_subscriber(call.id, WriteOutcome)
       [] call.op = "is_subscribed" -> whStore = "up" /\ webhook_is_subscribed(call.id)
       [] call.op = "get_subscriber_count" -> whStore = "up" /\ webhook_get_subscriber_count
       [] OTHER -> FALSE
  /\ UNCHANGED <<storeVars, subscribers, pc, callVars, eventVars, otherVars>>

(* the copy is ready for the next call *)
WebhookReturn ==
  /\ pc = "idle" /\ whPc = "done"
  /\ whPc' = "idle"
  /\ whRet' = NoReturn
  /\ UNCHANGED <<storeVars, subscribers, pc, callVars, eventVars, otherVars, whStore, whFile, whSubscribers>>

(* the calls of this store in the side-by-side runs: each waits until the  *)
(* copy has made the call before                                           *)
PairAdd == whPc = "idle" /\ ApiAdd

PairRemove == whPc = "idle" /\ ApiRemove

\* the copy has no get_all_subscribers
PairRead == whPc = "idle" /\ ApiRead /\ call'.op # "get_all_subscribers"

PairFinish == whPc = "done" /\ Finish

\* both stores start on files of equal content
Init3 ==
  /\ variant = "polling"
  /\ store = "new"
  /\ file \in InitFiles
  /\ subscribers = {}
  /\ pc = "idle"
  /\ caller = "api"
  /\ call = NoCall
  /\ repeat = FALSE
  /\ writeFailed = FALSE
  /\ pre = {}
  /\ fileBefore = Absent
  /\ ret = "none"
  /\ saved = "none"
  /\ pending = <<>>
  /\ event = NoEvent
  /\ calls = <<>>
  /\ reply = NoReply
  /\ outcome = "none"
  /\ sent = 0
  /\ other = {}
  /\ otherWrote = "no"
  /\ whStore = "new"
  /\ whFile = file
  /\ whSubscribers = {}
  /\ whPc = "idle"
  /\ whRet = NoReturn

Next3 ==
  \/ Construct
  \/ PairAdd
  \/ PairRemove
  \/ PairRead
  \/ SaveOpen
  \/ SaveWrite
  \/ SaveClose
  \/ WebhookCall
  \/ PairFinish
  \/ WebhookReturn

Spec3 == Init3 /\ [][Next3]_vars

(* ================================================================ claims *)
\* a store call of the running process has returned
Returned(op) == store = "up" /\ pc \in {"send", "done"} /\ call.op = op /\ ret # "none"

\* the durable resource holds exactly the set S, completely written
Holds(f, S) == f.kind = "object" /\ Range(f.ids) = S

(* C1: add_subscriber(id) returns True exactly when id was not in the set   *)
(* before the call; after it returns, is_subscribed(id) is true; a call     *)
(* that repeats an add which returned True returns False; the set grows by  *)
(* one on True and stays as it was on False.                                *)
C1_AddContract ==
  Returned("add") =>
    /\ (ret = "True") <=> ~is_subscribed(pre, call.id)
    /\ is_subscribed(subscribers, call.id)
    /\ repeat => ret = "False"
    /\ ret = "True" => get_subscriber_count(subscribers) = get_subscriber_count(pre) + 1
    /\ ret = "False" => subscribers = pre

\* a second add of the same id, straight after one that returned True, has returned
C1_Witness ==
  Returned("add") /\ repeat /\ ret = "False" /\ get_subscriber_count(subscribers) = MaxId

(* C2: remove_subscriber(id) returns True exactly when id was in the set    *)
(* before the call; after it returns, is_subscribed(id) is false; a call    *)
(* that repeats a remove which returned True returns False; a remove of an  *)
(* absent id returns False and leaves get_subscriber_count() unchanged.     *)
C2_RemoveContract ==
  Returned("remove") =>
    /\ (ret = "True") <=> is_subscribed(pre, call.id)
    /\ ~is_subscribed(subscribers, call.id)
    /\ repeat => ret = "False"
    /\ ~is_subscribed(pre, call.id) =>
         ret = "False" /\ get_subscriber_count(subscribers) = get_subscriber_count(pre)
    /\ ret = "True" => subscribers = pre \ {call.id}

\* a second remove of the same id, straight after one that returned True, has returned
C2_Witness ==
  Returned("remove") /\ repeat /\ ret = "False" /\ pre # {}

(* C3 as stated: whenever a membership-changing call has returned True, the *)
(* set serialized in the durable resource equals the in-memory set.         *)
C3_DurableEqualsMemory ==
  (store = "up" /\ pc \in {"send", "done"} /\ call.op \in {"add", "remove"} /\ ret = "True") =>
    Holds(file, subscribers)

(* C3 amended: whenever a membership-changing call has returned True and    *)
(* its _save_subscribers did not end in a swallowed OSError, the durable    *)
(* resource holds exactly the in-memory set, completely written.            *)
C3_DurableEqualsMemoryIfSaved ==
  (store = "up" /\ pc \in {"send", "done"} /\ call.op \in {"add", "remove"} /\ ret = "True"
     /\ saved # "OSError") =>
    saved = "ok" /\ Holds(file, subscribers)

\* a successful add on top of a non-empty set has returned
C3_Witness ==
  Returned("add") /\ ret = "True" /\ saved = "ok" /\ pre # {} /\ Holds(file, subscribers)

\* the set the call in progress or just returned is meant to produce
NewSet == IF call.op = "add" THEN pre \cup {call.id} ELSE pre \ {call.id}

(* C4: if the process crashes between the in-memory mutation and the end of *)
(* _save_subscribers, a durable resource that was good before the call      *)
(* holds either the complete previous set or the complete new set.          *)
C4_CrashKeepsGoodFile ==
  (store = "down" /\ pc \in {"save_open", "save_write"} /\ fileBefore.kind = "object") =>
    (file = fileBefore \/ Holds(file, NewSet))

(* C5: constructing a store never raises because of the content of the      *)
(* durable resource; a missing resource and every content that is not an    *)
(* object with a list of ids give the empty set.                            *)
C5_LoadNeverRaises ==
  /\ store # "raised"
  /\ (store = "up" /\ pc = "done" /\ call.op \in {"start", "restart_clean", "restart_dirty"}
        /\ file.kind # "object") => subscribers = {}

(* C6 as stated: when the write fails with an I/O error, the call returns   *)
(* True, the in-memory set keeps the mutation, the durable resource keeps   *)
(* its previous content, and the in-memory and durable sets differ.         *)
C6_WriteFailureKeepsFile ==
  (store = "up" /\ pc \in {"send", "done"} /\ saved = "OSError") =>
    /\ ret = "True"
    /\ subscribers = NewSet
    /\ file = fileBefore
    /\ load_subscribers(file) # subscribers

(* C6 amended: when the write fails with an I/O error, no exception         *)
(* propagates, the call returns True and the in-memory set keeps the        *)
(* mutation; the durable resource either keeps its previous content (the    *)
(* open failed) or is left truncated, a prefix of the new serialization     *)
(* that loads as the empty set (the failure came after the open).           *)
C6_WriteFailureNoRollback ==
  (store = "up" /\ pc \in {"send", "done"} /\ saved = "OSError") =>
    /\ ret = "True"
    /\ subscribers = NewSet /\ subscribers # pre
    /\ \/ file = fileBefore
       \/ /\ file.kind = "partial"
          /\ \E s \in Orders(subscribers) : file.ids = Prefix(s, Len(file.ids))
          /\ load_raises(file) = "none" /\ load_subscribers(file) = {}

\* a write that failed after the open has truncated a good file
C6_Witness ==
  /\ store = "up" /\ pc \in {"send", "done"} /\ saved = "OSError" /\ ret = "True"
  /\ fileBefore.kind = "object" /\ fileBefore.ids # <<>> /\ file.kind = "partial"

(* C7: a process that replaces one which died with no call in progress and  *)
(* no failed write loads from the durable resource exactly the set the dead *)
(* process had in memory, whatever the order of its calls and whatever the  *)
(* order in which the ids were serialized.                                  *)
C7_RoundTrip ==
  (store = "up" /\ pc = "done" /\ call.op = "restart_clean") => subscribers = pre

\* a restart has reloaded a set of several ids
C7_Witness ==
  /\ store = "up" /\ pc = "done" /\ call.op = "restart_clean"
  /\ get_subscriber_count(pre) = MaxId /\ subscribers = pre

\* the aliases each variant is configured with
Aliases(v, intent) == IF v = "webhook" THEN WebhookAliases(intent) ELSE {<<"/" \o intent>>}

\* the store call (if any) of an event with an alias of the intent has returned
Handled(intent) ==
  /\ store = "up" /\ pc \in {"send", "done"}
  /\ event.has_text /\ strip(event.text) \in Aliases(variant, intent)

(* C8: for an event whose trimmed text is a SUBSCRIBE alias the router      *)
(* calls add_subscriber(sender) exactly once; the reply is the welcome      *)
(* message with the sender's display name exactly when the id was not       *)
(* subscribed before, the already-subscribed message otherwise (count       *)
(* unchanged); the sender is subscribed afterwards.                         *)
C8_Subscribe ==
  Handled("start") =>
    /\ calls = <<[op |-> "add_subscriber", id |-> event.chat_id]>>
    /\ (reply.kind = "welcome") <=> ~is_subscribed(pre, event.chat_id)
    /\ (reply.kind = "already") <=> is_subscribed(pre, event.chat_id)
    /\ (reply.kind = "welcome" /\ event.first_name # "") => reply.name = event.first_name
    /\ reply.kind = "already" => get_subscriber_count(subscribers) = get_subscriber_count(pre)
    /\ is_subscribed(subscribers, event.chat_id)

\* an untrimmed /start of a new sender has been answered with the welcome
C8_Witness ==
  /\ Handled("start") /\ pc = "done" /\ outcome = "success"
  /\ event.text = <<" ", "/start", " ">> /\ reply.kind = "welcome" /\ reply.name = "Ana"
  /\ pre # {}

(* C9: for an event whose trimmed text is an UNSUBSCRIBE alias the router   *)
(* calls remove_subscriber(sender) exactly once; the reply is the           *)
(* confirmation exactly when the id was subscribed before, the              *)
(* not-subscribed message otherwise; the sender is not subscribed afterwards.*)
C9_Unsubscribe ==
  Handled("stop") =>
    /\ calls = <<[op |-> "remove_subscriber", id |-> event.chat_id]>>
    /\ (reply.kind = "unsubscribed") <=> is_subscribed(pre, event.chat_id)
    /\ (reply.kind = "not_subscribed") <=> ~is_subscribed(pre, event.chat_id)
    /\ ~is_subscribed(subscribers, event.chat_id)

\* an untrimmed /stop of a subscribed sender has been confirmed
C9_Witness ==
  /\ Handled("stop") /\ pc = "done" /\ outcome = "success"
  /\ event.text = <<"/stop", " ">> /\ reply.kind = "unsubscribed"
  /\ subscribers # {}

(* C10: for an event whose trimmed text is a STATUS alias the router makes  *)
(* only the two reads is_subscribed(id) and get_subscriber_count(); the     *)
(* in-memory set and the durable resource are unchanged; the reply is HTML; *)
(* it shows the active marker exactly when the sender is in the set; the    *)
(* count appears only in the active reply and equals the set cardinality.   *)
C10_Status ==
  Handled("status") =>
    /\ calls = <<[op |-> "is_subscribed", id |-> event.chat_id], [op |-> "get_subscriber_count", id |-> 0]>>
    /\ subscribers = pre /\ file = fileBefore
    /\ reply.parse_mode = "HTML"
    /\ (reply.kind = "status_active") <=> is_subscribed(subscribers, event.chat_id)
    /\ (reply.kind = "status_inactive") <=> ~is_subscribed(subscribers, event.chat_id)
    /\ reply.kind = "status_active" => reply.count = get_subscriber_count(subscribers)
    /\ reply.kind # "status_active" => reply.count = -1

\* the status of a subscribed sender among several subscribers has been reported
C10_Witness ==
  /\ Handled("status") /\ pc = "done" /\ outcome = "success"
  /\ reply.kind = "status_active" /\ reply.count = MaxId

\* the handler of an event has finished
Finished == store = "up" /\ pc = "done" /\ event.chat_id # 0

\* the trimmed text of the event is not blank and is none of the aliases of its variant
NotAnAlias ==
  /\ event.has_text /\ strip(event.text) # <<>>
  /\ \A intent \in {"start", "stop", "status"} : strip(event.text) \notin Aliases(variant, intent)

(* C11: an event whose trimmed text is not exactly one of the configured    *)
(* aliases (other casing, trailing punctuation, any other text) is handled  *)
(* as UNRECOGNIZED: the reply is the unrecognized-command reply and the     *)
(* in-memory set and the durable resource are unchanged.  (Blank text is    *)
(* the subject of C12.)                                                     *)
C11_ExactMatching ==
  (Finished /\ NotAnAlias) =>
    reply.kind = "unknown" /\ subscribers = pre /\ file = fileBefore

(* C12: in the webhook variant an event whose text is present but empty or  *)
(* whitespace-only gets the unrecognized-command reply and is not           *)
(* classified as ignored; only an event without text is ignored.            *)
C12_BlankTextUnrecognized ==
  (Finished /\ variant = "webhook") =>
    /\ (event.has_text /\ strip(event.text) = <<>>) => reply.kind = "unknown" /\ outcome # "ignored"
    /\ outcome = "ignored" => ~event.has_text

(* C13: in every variant a reply is sent for an event exactly when it       *)
(* carries text: one reply for every event with text, recognized or not, no *)
(* reply and no store call for an event without text.                       *)
C13_ReplyIffText ==
  Finished =>
    /\ event.has_text => sent = 1
    /\ ~event.has_text => sent = 0 /\ calls = <<>>

\* the send of the reply to a SUBSCRIBE or UNSUBSCRIBE event that changed membership has failed
SendFailedAfterMutation ==
  /\ Finished /\ variant = "webhook" /\ sent = 1 /\ outcome # "success"
  /\ call.op \in {"add", "remove"} /\ ret = "True"

(* C14 as stated: if the send fails after a SUBSCRIBE or UNSUBSCRIBE event  *)
(* has mutated the store, the in-memory set and the durable resource both   *)
(* still reflect the add/remove, and the failure is an error outcome.       *)
C14_SendFailureKeepsBoth ==
  SendFailedAfterMutation =>
    subscribers = NewSet /\ Holds(file, NewSet) /\ outcome = "error"

(* C14 amended: if the send fails after a SUBSCRIBE or UNSUBSCRIBE event    *)
(* has mutated the store, nothing is rolled back: the in-memory set still   *)
(* reflects the add/remove, the durable resource is as the store call left  *)
(* it (the new set when its write did not fail, else untouched or           *)
(* truncated), and the failure is an error outcome.                         *)
C14_SendFailureNoRollback ==
  SendFailedAfterMutation =>
    /\ subscribers = NewSet /\ subscribers # pre
    /\ saved = "ok" => Holds(file, NewSet)
    /\ saved # "ok" => saved = "OSError" /\ (file = fileBefore \/ file.kind = "partial")
    /\ outcome = "error"

\* the reply to an unsubscription that was written to the file could not be sent
C14_Witness ==
  SendFailedAfterMutation /\ call.op = "remove" /\ saved = "ok" /\ subscribers # {} /\ outcome = "error"

(* C15: in the webhook variant the store is reloaded from the durable       *)
(* resource at the start of every invocation: the membership the router     *)
(* observes for an event is the content the resource had when the event     *)
(* started, also when another process changed the resource meanwhile.       *)
C15_ReloadedEachInvocation ==
  (variant = "webhook" /\ store = "up" /\ pc \in {"save_open", "save_write", "send", "done"} /\ event.chat_id # 0) =>
    pre = load_subscribers(fileBefore)

\* a membership-changing call of this instance has returned
Completed == store = "up" /\ pc \in {"send", "done"} /\ call.op \in {"add", "remove"} /\ ret = "True"

(* C16 as stated: when two instances over the same file interleave          *)
(* membership-changing calls, the durable set equals the in-memory set of   *)
(* the instance that wrote last: this instance's when its call returned     *)
(* after the other's last write, the other's when this instance has not     *)
(* opened the file since.                                                   *)
C16_LastWriterWins ==
  /\ (Completed /\ otherWrote \in {"no", "overlap"}) => Holds(file, subscribers)
  /\ (pc # "save_write" /\ otherWrote \in {"ok", "failed"}) => Holds(file, other)

(* C16 amended: the durable set equals the in-memory set of the instance    *)
(* that wrote last provided that write did not end in OSError and did not   *)
(* overlap a write of the other instance.                                   *)
C16_LastCompleteWriterWins ==
  /\ (Completed /\ saved = "ok" /\ otherWrote = "no") => Holds(file, subscribers)
  /\ otherWrote = "ok" => Holds(file, other)

\* this instance wrote last, and an id the other instance had written is gone from the file
C16_Witness ==
  /\ Completed /\ saved = "ok" /\ ~writeFailed /\ otherWrote = "no"
  /\ Holds(file, subscribers) /\ Holds(fileBefore, other)
  /\ \E j \in other : j # call.id /\ j \notin subscribers

(* C17: the durable resource is written only inside an add_subscriber or    *)
(* remove_subscriber call that changed membership, and the in-memory set    *)
(* changes only at the start of such a call (or is built by the             *)
(* constructor): an add of a present id, a remove of an absent id,          *)
(* is_subscribed, get_subscriber_count, get_all_subscribers and the load    *)
(* leave the durable resource alone.                                        *)
C17_WritesOnlyOnChange ==
  [][ /\ file' # file =>
           /\ store = "up" /\ pc \in {"save_open", "save_write"}
           /\ call.op \in {"add", "remove"} /\ subscribers # pre
      /\ subscribers' # subscribers =>
           \/ store # "up"
           \/ pc = "idle" /\ pc' = "save_open" /\ call'.op \in {"add", "remove"}
    ]_vars

\* get_all_subscribers has returned from a store that holds ids
C17_Witness ==
  /\ store = "up" /\ pc = "done" /\ call.op = "get_all_subscribers"
  /\ subscribers # {} /\ subscribers = pre /\ file = fileBefore

(* C18: in every variant, when a SUBSCRIBE event has an empty or missing    *)
(* display name, the reply carries the placeholder "there" and never an     *)
(* empty name.                                                              *)
C18_NamePlaceholder ==
  Handled("start") =>
    /\ reply.name # ""
    /\ event.first_name = "" => reply.name = "there"

(* C19: handling one event from a sender changes the membership of at most  *)
(* that sender: every other id is subscribed after the event exactly when   *)
(* it was before, and the cardinality changes by at most one.               *)
C19_OnlySender ==
  (store = "up" /\ pc \in {"save_open", "save_write", "send", "done"} /\ event.chat_id # 0) =>
    /\ \A j \in (subscribers \cup pre) \ {event.chat_id} : is_subscribed(subscribers, j) <=> is_subscribed(pre, j)
    /\ get_subscriber_count(subscribers) - get_subscriber_count(pre) \in {-1, 0, 1}

\* an unsubscription has been handled while another id stays subscribed
C19_Witness ==
  /\ Finished /\ call.op = "remove" /\ ret = "True"
  /\ subscribers # {} /\ subscribers = pre \ {event.chat_id}

(* C20: within a SUBSCRIBE or UNSUBSCRIBE event no reply is sent before the *)
(* store call has returned: when a send has been attempted the mutation is  *)
(* applied in memory and, if membership changed, the write has been         *)
(* attempted (it succeeded or ended in OSError).                            *)
C20_MutateBeforeReply ==
  (event.chat_id # 0 /\ caller = "router" /\ call.op \in {"add", "remove"} /\ sent > 0) =>
    /\ ret # "none"
    /\ subscribers = NewSet
    /\ ret = "True" => saved \in {"ok", "OSError"}

\* the welcome has been sent after the new set was written
C20_Witness ==
  /\ Finished /\ caller = "router" /\ call.op = "add" /\ sent = 1
  /\ ret = "True" /\ saved = "ok" /\ Holds(file, subscribers)

(* what the call this store has just returned from gave back, in the form  *)
(* the copy records it: the boolean or the escaped exception, and the      *)
(* count                                                                   *)
ReturnedValue ==
  [b |-> IF call.op = "start" THEN (IF store = "raised" THEN load_raises(file) ELSE "none") ELSE ret,
   n |-> IF call.op = "get_subscriber_count" THEN get_subscriber_count(subscribers) ELSE 0]

\* the two files have equal content: the same shape, as much written, the same set of ids
SameDurable ==
  /\ file.kind = whFile.kind
  /\ Len(file.ids) = Len(whFile.ids)
  /\ load_subscribers(file) = load_subscribers(whFile)

(* C21: the SubscriberManager of api/webhook.py is equivalent to the one of *)
(* src/subscribers.py: started on equal durable content and given the same  *)
(* add_subscriber, remove_subscriber, is_subscribed and                     *)
(* get_subscriber_count calls with the same write and load failures, the    *)
(* copy returns what the original returned at every call, and after every   *)
(* call the in-memory sets are equal and the durable contents are equal.    *)
C21_CopyEquivalent ==
  /\ (pc = "done" /\ whPc = "done") => whRet = ReturnedValue
  /\ (whPc = "done" \/ (pc = "idle" /\ whPc = "idle")) =>
       /\ whStore = store
       /\ whSubscribers = subscribers
       /\ SameDurable

\* both have returned True from a removal whose write failed after the file was truncated
C21_Witness ==
  /\ pc = "done" /\ whPc = "done" /\ call.op = "remove" /\ ret = "True" /\ whRet.b = "True"
  /\ saved = "OSError" /\ file.kind = "partial" /\ whFile.kind = "partial"
  /\ subscribers # {} /\ whSubscribers = subscribers

====
